---- MODULE Spec2Model ----
(***************************************************************************)
(* Sudoku puzzle generation engine of wechat-sudoku (utils/sudokuLogic):   *)
(* grid primitives, the backtracking solver, the solution counter and the  *)
(* puzzle generator.                                                       *)
(*                                                                         *)
(* The recursive searches solveGrid and countSolutions are modelled as a   *)
(* stack machine: `grid` is the array the search mutates in place, `stack` *)
(* holds one frame <<row, col, num>> per active invocation that has placed *)
(* a candidate and is waiting for its recursive call, and `ret` says       *)
(* whether control is at the entry of a call ("call") or a call has just   *)
(* returned ("true"/"false" for solveGrid, "val" for countSolutions).      *)
(* One step of the machine runs the code between two call/return events.   *)
(***************************************************************************)
EXTENDS Integers, Sequences, FiniteSets, TLC

GRID_SIZE == 9
BOX_SIZE == 3

\* Bound of the model: Math.random() is a seeded source, and the seeds
\* 0 .. NumSeeds-1 are explored.
NumSeeds == 3

Idx == 0 .. (GRID_SIZE - 1)
Box == 0 .. (BOX_SIZE - 1)
Cells == 0 .. (GRID_SIZE * GRID_SIZE - 1)

Min(S) == CHOOSE m \in S : \A n \in S : m <= n

\* src 615: a 9x9 grid of zeros
getEmptyGrid == [r \in Idx |-> [c \in Idx |-> 0]]

\* isSafe without the check of the 3x3 box
isSafe_NoBox(g, row, col, num) ==
  \A x \in Idx : ~(g[row][x] = num \/ g[x][col] = num)

\* isSafe with the box's first column computed from row
isSafe_BoxByRow(g, row, col, num) ==
  /\ \A x \in Idx : ~(g[row][x] = num \/ g[x][col] = num)
  /\ LET startRow == row - (row % BOX_SIZE)
         startCol == col - (row % BOX_SIZE)
     IN  \A i \in Box : \A j \in Box :
           (j + startCol) \in Idx => g[i + startRow][j + startCol] # num

\* src 618-638
isSafe(g, row, col, num) ==
  /\ \A x \in Idx : ~(g[row][x] = num \/ g[x][col] = num)
  /\ LET startRow == row - (row % BOX_SIZE)
         startCol == col - (col % BOX_SIZE)
     IN  \A i \in Box : \A j \in Box : g[i + startRow][j + startCol] # num

\* the box test reading only the first row of the box
isSafeBox_FirstRow(g, rowStart, colStart, num) ==
  \A j \in Box : g[rowStart][colStart + j] # num

\* src 725-734
isSafeBox(g, rowStart, colStart, num) ==
  \A i \in Box : \A j \in Box : g[rowStart + i][colStart + j] # num

\* the scan without a signal for "no empty cell": it ends on the last cell
FirstEmpty_NoFlag(g) ==
  LET R == {r \in Idx : \E c \in Idx : g[r][c] = 0}
  IN  IF R = {} THEN GRID_SIZE * GRID_SIZE - 1
      ELSE LET row == Min(R)
               col == Min({c \in Idx : g[row][c] = 0})
           IN  row * GRID_SIZE + col

\* src 643-645 and 672-682: the row-major scan for the first empty cell;
\* -1 when the grid has no empty cell.
FirstEmpty(g) ==
  LET R == {r \in Idx : \E c \in Idx : g[r][c] = 0}
  IN  IF R = {} THEN -1
      ELSE LET row == Min(R)
               col == Min({c \in Idx : g[row][c] = 0})
           IN  row * GRID_SIZE + col

\* src 647-648 and 689-690: the next candidate of `for (num ...; num <= 9; num++)`
\* that passes isSafe, starting at `from`; 10 when the loop runs out.
NextSafe(g, row, col, from) ==
  LET S == {n \in from .. 9 : isSafe(g, row, col, n)}
  IN  IF S = {} THEN 10 ELSE Min(S)

Place(g, row, col, num) == [g EXCEPT ![row][col] = num]

\* the undo left out
Undo_Skip(g, row, col) == g

\* src 653: grid[row][col] = 0 after a failed recursive call
Undo(g, row, col) == Place(g, row, col, 0)

\* the cutoff one too high: a third completion is still counted
Cutoff_Two(n) == n > 2

\* the cutoff one too low: the search stops after the first completion
Cutoff_One(n) == n > 0

\* src 666: if (count.val > 1) return count.val
Cutoff(n) == n > 1

\* one accumulator shared by all top-level calls: a call starts from the
\* value the previous call left
FreshCount_Shared(c) == c

\* src 665, 771: the accumulator of a top-level call is a new object
\* {val: 0}; c is the value the previous call's accumulator was left with
FreshCount(c) == 0

\* the backup read with row and column exchanged
Backup_Transposed(p, r, c) == p[c][r]

\* src 764: const backup = puzzle[r][c]
Backup(p, r, c) == p[r][c]

\* the rejected removal not put back
Restore_Skip(p, r, c, b) == p

\* src 775: puzzle[r][c] = backup
Restore(p, r, c, b) == Place(p, r, c, b)

\* the break taken while one attempt is left
BudgetSpent_Early(a, n) == a <= 1 /\ n > 0

\* the break taken one rejection late
BudgetSpent_Late(a, n) == a < 0 /\ n > 0

\* src 777: if (attempts <= 0 && cellsToRemove > 0)
BudgetSpent(a, n) == a <= 0 /\ n > 0

\* the break taken one removal late
RemovalDone_Late(n) == n < 0

\* src 762: if (cellsToRemove <= 0) break
RemovalDone(n) == n <= 0

Top(s) == s[Len(s)]
Pop(s) == SubSeq(s, 1, Len(s) - 1)
SetTop(s, f) == [s EXCEPT ![Len(s)] = f]
Frame(row, col, num) == [row |-> row, col |-> col, num |-> num]

VARIABLES
  pc,            \* position of the running caller (generateSudokuPuzzle or an outside call)
  cluesCount,    \* argument of generateSudokuPuzzle
  seed,          \* the seed of the random source
  grid,          \* the array the running search mutates in place
  stack,         \* frames of the running search
  count,         \* count.val of the running countSolutions
  ret,           \* "call" | "true" | "false" | "val"
  input,         \* the grid as it was passed to the running top-level call
  solution,      \* generateSudokuPuzzle: solution
  puzzle,        \* generateSudokuPuzzle: puzzle
  attempts,      \* generateSudokuPuzzle: attempts
  cellsToRemove, \* generateSudokuPuzzle: cellsToRemove
  positions,     \* generateSudokuPuzzle: positions (shuffled)
  shuffleI,      \* loop index of the shuffle, 80 down to 1
  pos,           \* index into positions of the for-of loop, 1..81
  backup,        \* generateSudokuPuzzle: backup
  solutions,     \* the value the last top-level countSolutions call returned
                 \* to its caller (src 771), -1 before the first return
  safe,          \* the results of the isSafe calls of IsSafeCall
  boardData,     \* App state boardData (src 8): <<>> or 9 x 9 cells
  status,        \* App state status (src 12)
  selectedCell,  \* App state selectedCell (src 11): <<>> for null, or <<row, col>>
  loading,       \* App state loading (src 13)
  isDraftMode,   \* App state isDraftMode (src 20)
  score,         \* App state score (src 18)
  difficulty,    \* App state difficulty (src 10)
  answerShown,   \* history: handleShowAnswer has revealed the solution of
                 \* the board on display
  boxI,          \* generateFullBoard: i, the row and column where the box
                 \* being filled starts (src 704)
  cellK          \* fillBox: the cell being filled, BOX_SIZE * i + j (src 715-716)

appVars == <<boardData, status, selectedCell, loading, isDraftMode, score,
            difficulty, answerShown>>

fillVars == <<boxI, cellK>>

vars == <<pc, cluesCount, seed, grid, stack, count, ret, input, solution, puzzle,
          attempts, cellsToRemove, positions, shuffleI, pos, backup, solutions,
          safe, appVars, fillVars>>

searchVars == <<grid, stack, count, ret>>
genVars == <<solution, puzzle, attempts, cellsToRemove, positions, shuffleI,
            pos, backup, solutions, safe>>

----------------------------------------------------------------------------
(* solveGrid, src 642-661 *)

\* Entry of an invocation solveGrid(grid): scan, then the first candidate.
SolveEnter ==
  /\ ret = "call"
  /\ LET e == FirstEmpty(grid)
         row == e \div GRID_SIZE
         col == e % GRID_SIZE
         n == NextSafe(grid, row, col, 1)
     IN  IF e = -1
         THEN /\ ret' = "true"                       \* 660
              /\ UNCHANGED <<grid, stack>>
         ELSE IF n > 9
              THEN /\ ret' = "false"                 \* 656
                   /\ UNCHANGED <<grid, stack>>
              ELSE /\ grid' = Place(grid, row, col, n)              \* 649
                   /\ stack' = Append(stack, Frame(row, col, n))    \* 650
                   /\ ret' = "call"
  /\ UNCHANGED count

\* The recursive call returned true: `if (solveGrid(grid)) return true`.
SolveReturnTrue ==
  /\ ret = "true"
  /\ stack # <<>>
  /\ stack' = Pop(stack)                             \* 651
  /\ UNCHANGED <<grid, count, ret>>

\* The recursive call returned false: undo and go on with the next candidate.
SolveReturnFalse ==
  /\ ret = "false"
  /\ stack # <<>>
  /\ LET f == Top(stack)
         g0 == Undo(grid, f.row, f.col)              \* 653
         n == NextSafe(g0, f.row, f.col, f.num + 1)
     IN  IF n > 9
         THEN /\ grid' = g0
              /\ stack' = Pop(stack)                 \* 656
              /\ ret' = "false"
         ELSE /\ grid' = Place(g0, f.row, f.col, n)  \* 649
              /\ stack' = SetTop(stack, Frame(f.row, f.col, n))
              /\ ret' = "call"
  /\ UNCHANGED count

SolveStep == SolveEnter \/ SolveReturnTrue \/ SolveReturnFalse

SolveFinished == stack = <<>> /\ ret \in {"true", "false"}

----------------------------------------------------------------------------
(* countSolutions, src 665-697 *)

CountEnter ==
  /\ ret = "call"
  /\ LET e == FirstEmpty(grid)
         row == e \div GRID_SIZE
         col == e % GRID_SIZE
         n == NextSafe(grid, row, col, 1)
     IN  IF Cutoff(count)
         THEN /\ ret' = "val"                        \* 666
              /\ UNCHANGED <<grid, stack, count>>
         ELSE IF e = -1
              THEN /\ count' = count + 1             \* 685
                   /\ ret' = "val"                   \* 686
                   /\ UNCHANGED <<grid, stack>>
              ELSE IF n > 9
                   THEN /\ ret' = "val"              \* 696
                        /\ UNCHANGED <<grid, stack, count>>
                   ELSE /\ grid' = Place(grid, row, col, n)             \* 691
                        /\ stack' = Append(stack, Frame(row, col, n))   \* 692
                        /\ ret' = "call"
                        /\ UNCHANGED count

\* The recursive call returned: reset the cell and go on with the loop.
CountReturn ==
  /\ ret = "val"
  /\ stack # <<>>
  /\ LET f == Top(stack)
         g0 == Place(grid, f.row, f.col, 0)          \* 693
         n == NextSafe(g0, f.row, f.col, f.num + 1)
     IN  IF n > 9
         THEN /\ grid' = g0
              /\ stack' = Pop(stack)                 \* 696
              /\ ret' = "val"
         ELSE /\ grid' = Place(g0, f.row, f.col, n)  \* 691
              /\ stack' = SetTop(stack, Frame(f.row, f.col, n))
              /\ ret' = "call"
  /\ UNCHANGED count

CountStep == CountEnter \/ CountReturn

CountFinished == stack = <<>> /\ ret = "val"

----------------------------------------------------------------------------
(* generateFullBoard / fillBox, src 700-734 *)

\* Seeds 0..NumSeeds-1 draw from the formulas below. Seed SparseSeed is one
\* listed run of Math.random(): its draws seed a board that holds a puzzle of
\* 17 clues, and its shuffle tries the 64 other cells first and the 17 clues
\* last.
SparseSeed == NumSeeds

\* src 718 under SparseSeed: the accepted draws of the three boxes
SparseDraws ==
  << <<9, 2, 1, 3, 8, 6, 4, 7, 5>>,
     <<2, 3, 7, 1, 6, 9, 5, 8, 4>>,
     <<2, 6, 8, 5, 3, 4, 9, 7, 1>> >>

\* src 757 under SparseSeed: j at the steps i = 1..80 of the shuffle
SparseIndex ==
  << 1, 2, 0, 3, 1, 0, 4, 0, 3, 10, 3, 3, 10, 14, 4, 6, 6, 9, 12, 17,
     0, 1, 7, 8, 15, 21, 25, 27, 29, 27, 25, 24, 22, 21, 20, 18, 16, 15, 14, 8,
     7, 6, 1, 0, 17, 4, 45, 12, 9, 9, 42, 2, 35, 3, 46, 39, 5, 10, 54, 46,
     42, 19, 13, 2, 4, 5, 11, 17, 23, 26, 28, 32, 33, 36, 37, 46, 52, 57, 69, 79 >>

\* The numbers fillBox accepts for the nine cells of box b (0..2) under
\* seed s, in order: each is a draw of Math.floor(Math.random() * 9) + 1 that
\* left the do-while loop.
RandDraws(s, b) ==
  LET step == <<1, 2, 4, 5, 7, 8>>[((s + b) % 6) + 1]
  IN  IF s = SparseSeed
      THEN [k \in 0 .. 8 |-> SparseDraws[b + 1][k + 1]]
      ELSE [k \in 0 .. 8 |-> ((step * k + b) % 9) + 1]

RECURSIVE fillCells(_, _, _, _, _)
\* src 713-723: cells k..8 of the box at (row, col), row-major; the result
\* is <<ok, grid>>, ok saying that every draw passed isSafeBox.
fillCells(g, row, col, d, k) ==
  IF k = BOX_SIZE * BOX_SIZE THEN [ok |-> TRUE, grid |-> g]
  ELSE IF ~isSafeBox(g, row, col, d[k]) THEN [ok |-> FALSE, grid |-> g]
  ELSE fillCells(Place(g, row + (k \div BOX_SIZE), col + (k % BOX_SIZE), d[k]),
                 row, col, d, k + 1)

fillBox(g, row, col, d) == fillCells(g, row, col, d, 0)

----------------------------------------------------------------------------
(* generateSudokuPuzzle, src 737-789 *)

\* src 752-753
rowMajor == [k \in 1 .. (GRID_SIZE * GRID_SIZE) |->
               <<(k - 1) \div GRID_SIZE, (k - 1) % GRID_SIZE>>]

\* Math.floor(Math.random() * (k + 1)) at step k of the shuffle under seed s:
\* a value in 0..k.
RandIndex(s, k) ==
  IF s = SparseSeed THEN SparseIndex[k]
  ELSE IF k > 40 THEN (80 - k + s) % (k + 1) ELSE k

Swap(p, a, b) == [p EXCEPT ![a] = p[b], ![b] = p[a]]

Clues(g) == Cardinality({k \in Cells : g[k \div GRID_SIZE][k % GRID_SIZE] # 0})

\* src 376: the smallest clue count the difficulty slider offers
MinClues == 15

\* src 10: the difficulty the App starts with
DefaultDifficulty == 35

\* The target clue counts explored (the UI offers 15..80, src 376-377);
\* MinClues is explored under SparseSeed.
Targets == {81, 80, 60, DefaultDifficulty, 30, 25}

\* src 700-709 up to the call of solveGrid: seed the three diagonal boxes.
SeedBoxes ==
  /\ pc = "start"
  /\ LET b0 == fillBox(getEmptyGrid, 0, 0, RandDraws(seed, 0))
         b1 == fillBox(b0.grid, 3, 3, RandDraws(seed, 1))
         b2 == fillBox(b1.grid, 6, 6, RandDraws(seed, 2))
     IN  /\ b0.ok /\ b1.ok /\ b2.ok
         /\ grid' = b2.grid
         /\ input' = b2.grid
  /\ stack' = <<>>
  /\ ret' = "call"
  /\ pc' = "solve"
  /\ UNCHANGED <<fillVars, appVars, cluesCount, seed, count, genVars>>

\* src 709: solveGrid(grid) runs
FullBoardSolve ==
  /\ pc = "solve"
  /\ SolveStep
  /\ UNCHANGED <<pc, fillVars, appVars, cluesCount, seed, input, genVars>>

\* src 710, 739-753: generateFullBoard returns grid whatever solveGrid
\* returned; copy, budget, positions in row-major order.
Setup ==
  /\ pc = "solve"
  /\ SolveFinished
  /\ solution' = grid
  /\ puzzle' = grid
  /\ attempts' = (IF cluesCount > 25 THEN 5 ELSE 20)
  /\ cellsToRemove' = 81 - cluesCount
  /\ positions' = rowMajor
  /\ shuffleI' = Len(rowMajor) - 1
  /\ pc' = "shuffle"
  /\ UNCHANGED <<fillVars, appVars, cluesCount, seed, searchVars, input, pos, backup,
                 solutions, safe>>

\* src 756-759: one iteration of the Fisher-Yates loop (positions is 1-based
\* here), and the loop's exit.
Shuffle ==
  /\ pc = "shuffle"
  /\ IF shuffleI > 0
     THEN /\ positions' = Swap(positions, shuffleI + 1, RandIndex(seed, shuffleI) + 1)
          /\ shuffleI' = shuffleI - 1
          /\ UNCHANGED <<pc, pos>>
     ELSE /\ pos' = 1
          /\ pc' = "loop"
          /\ UNCHANGED <<positions, shuffleI>>
  /\ UNCHANGED <<fillVars, appVars, cluesCount, seed, searchVars, input, solution, puzzle,
                 attempts, cellsToRemove, backup, solutions, safe>>

\* src 761-771: the head of one iteration of the removal loop
LoopHead ==
  /\ pc = "loop"
  /\ IF pos > Len(positions) \/ RemovalDone(cellsToRemove)
     THEN /\ pc' = "done"                            \* 762, 788
          /\ UNCHANGED <<searchVars, input, genVars>>
     ELSE LET r == positions[pos][1]
              c == positions[pos][2]
          IN  IF puzzle[r][c] = 0
              THEN /\ pos' = pos + 1                 \* 765
                   /\ backup' = 0
                   /\ UNCHANGED <<pc, searchVars, input, solution, puzzle,
                                  attempts, cellsToRemove>>
              ELSE /\ backup' = Backup(puzzle, r, c)    \* 764
                   /\ puzzle' = Place(puzzle, r, c, 0)            \* 767
                   /\ grid' = Place(puzzle, r, c, 0)              \* 770
                   /\ input' = Place(puzzle, r, c, 0)
                   /\ count' = FreshCount(count)                     \* 771
                   /\ stack' = <<>>
                   /\ ret' = "call"
                   /\ pc' = "count"
                   /\ UNCHANGED <<solution, attempts, cellsToRemove, pos>>
  /\ UNCHANGED <<fillVars, appVars, cluesCount, seed, positions, shuffleI, solutions,
                 safe>>

\* src 771: countSolutions(gridCopy, {val: 0}) runs
Uniqueness ==
  /\ pc = "count"
  /\ CountStep
  /\ UNCHANGED <<pc, fillVars, appVars, cluesCount, seed, input, genVars>>

\* src 773-785
Judge ==
  /\ pc = "count"
  /\ CountFinished
  /\ solutions' = count                                           \* 771
  /\ LET r == positions[pos][1]
         c == positions[pos][2]
     IN  IF count # 1
         THEN /\ puzzle' = Restore(puzzle, r, c, backup)          \* 775
              /\ attempts' = attempts - 1                         \* 776
              /\ IF BudgetSpent(attempts - 1, cellsToRemove)
                 THEN pc' = "done" /\ pos' = pos                  \* 781
                 ELSE pc' = "loop" /\ pos' = pos + 1
              /\ UNCHANGED cellsToRemove
         ELSE /\ cellsToRemove' = cellsToRemove - 1               \* 784
              /\ pc' = "loop"
              /\ pos' = pos + 1
              /\ UNCHANGED <<puzzle, attempts>>
  /\ UNCHANGED <<fillVars, appVars, cluesCount, seed, searchVars, input, solution, positions,
                 shuffleI, backup, safe>>

\* The uniqueness check of the returned puzzle: countSolutions(copy of puzzle).
CheckReturned ==
  /\ pc = "done"
  /\ grid' = puzzle
  /\ input' = puzzle
  /\ count' = FreshCount(count)
  /\ stack' = <<>>
  /\ ret' = "call"
  /\ pc' = "recount"
  /\ UNCHANGED <<fillVars, appVars, cluesCount, seed, genVars>>

Recount ==
  /\ pc = "recount"
  /\ CountStep
  /\ UNCHANGED <<pc, fillVars, appVars, cluesCount, seed, input, genVars>>

Checked ==
  /\ pc = "recount"
  /\ CountFinished
  /\ pc' = "end"
  /\ UNCHANGED <<fillVars, appVars, cluesCount, seed, searchVars, input, genVars>>

Init ==
  /\ pc = "start"
  /\ seed \in 0 .. NumSeeds
  /\ cluesCount \in (IF seed = SparseSeed THEN {MinClues} ELSE Targets)
  /\ grid = getEmptyGrid
  /\ stack = <<>>
  /\ count = 0
  /\ ret = "call"
  /\ input = getEmptyGrid
  /\ solution = getEmptyGrid
  /\ puzzle = getEmptyGrid
  /\ attempts = 0
  /\ cellsToRemove = 0
  /\ positions = rowMajor
  /\ shuffleI = 0
  /\ pos = 1
  /\ backup = 0
  /\ solutions = -1
  /\ safe = <<>>
  /\ boardData = <<>>
  /\ status = "IDLE"
  /\ selectedCell = <<>>
  /\ loading = FALSE
  /\ isDraftMode = FALSE
  /\ score = 0
  /\ difficulty = DefaultDifficulty
  /\ answerShown = FALSE
  /\ boxI = 0
  /\ cellK = 0

Next ==
  \/ SeedBoxes
  \/ FullBoardSolve
  \/ Setup
  \/ Shuffle
  \/ LoopHead
  \/ Uniqueness
  \/ Judge
  \/ CheckReturned
  \/ Recount
  \/ Checked

Spec == Init /\ [][Next]_vars


----------------------------------------------------------------------------
(* The grid primitives and the two searches applied to given grids *)

\* The board generateFullBoard returns under seed 0 (see Board0Generated).
Board0 ==
  LET rows == << <<1, 2, 3, 4, 5, 7, 8, 6, 9>>,
                 <<4, 5, 6, 1, 9, 8, 2, 3, 7>>,
                 <<7, 8, 9, 3, 6, 2, 1, 5, 4>>,
                 <<3, 7, 8, 2, 4, 6, 5, 9, 1>>,
                 <<5, 9, 4, 8, 1, 3, 7, 2, 6>>,
                 <<2, 6, 1, 5, 7, 9, 4, 8, 3>>,
                 <<9, 4, 5, 6, 8, 1, 3, 7, 2>>,
                 <<8, 3, 7, 9, 2, 4, 6, 1, 5>>,
                 <<6, 1, 2, 7, 3, 5, 9, 4, 8>> >>
  IN  [r \in Idx |-> [c \in Idx |-> rows[r + 1][c + 1]]]

\* Bound of the model: the edited cells lie in rows and columns 0..MaxLine-1.
MaxLine == 4

\* The grids the primitives are applied to: Board0 with the corners of a
\* rectangle (rows r1 < r2, columns c1 < c2) edited. Corner k of <<(r1,c1),
\* (r1,c2), (r2,c1), (r2,c2)>> is emptied when k is in mask; corner ow, when
\* not emptied, is overwritten with the value of the other corner of its row.
EditedBoard(r1, r2, c1, c2, mask, ow) ==
  LET corner == << <<r1, c1>>, <<r1, c2>>, <<r2, c1>>, <<r2, c2>> >>
      other == <<2, 1, 4, 3>>
      at(k) == Board0[corner[k][1]][corner[k][2]]
      val(r, c) ==
        IF \E k \in mask : corner[k] = <<r, c>> THEN 0
        ELSE IF ow # 0 /\ corner[ow] = <<r, c>> THEN at(other[ow])
        ELSE Board0[r][c]
  IN  [r \in Idx |-> [c \in Idx |-> val(r, c)]]

Lines == 0 .. (MaxLine - 1)
LinePairs == {p \in Lines \X Lines : p[1] < p[2]}

Inputs ==
  {EditedBoard(rs[1], rs[2], cs[1], cs[2], mask, ow) :
     rs \in LinePairs, cs \in LinePairs, mask \in SUBSET (1 .. 4), ow \in 0 .. 4}

\* A call solveGrid(grid) from outside
SolveCall ==
  /\ pc = "idle"
  /\ stack' = <<>>
  /\ ret' = "call"
  /\ pc' = "solveGrid"
  /\ UNCHANGED <<fillVars, appVars, cluesCount, seed, grid, count, input, genVars>>

SolveRun ==
  /\ pc \in {"solveGrid", "solveGrid2"}
  /\ SolveStep
  /\ UNCHANGED <<pc, fillVars, appVars, cluesCount, seed, input, genVars>>

SolveDone ==
  /\ pc \in {"solveGrid", "solveGrid2"}
  /\ SolveFinished
  /\ pc' = (IF pc = "solveGrid" THEN "solved" ELSE "solved2")
  /\ UNCHANGED <<fillVars, appVars, cluesCount, seed, searchVars, input, genVars>>

\* solveGrid called again on the grid the first call left
SolveAgain ==
  /\ pc = "solved"
  /\ input' = grid
  /\ stack' = <<>>
  /\ ret' = "call"
  /\ pc' = "solveGrid2"
  /\ UNCHANGED <<fillVars, appVars, cluesCount, seed, grid, count, genVars>>

\* A call countSolutions(grid) from outside, with the default count = {val: 0}
CountCall ==
  /\ pc = "idle"
  /\ count' = FreshCount(count)
  /\ stack' = <<>>
  /\ ret' = "call"
  /\ pc' = "countSolutions"
  /\ UNCHANGED <<fillVars, appVars, cluesCount, seed, grid, input, genVars>>

CountRun ==
  /\ pc = "countSolutions"
  /\ CountStep
  /\ UNCHANGED <<pc, fillVars, appVars, cluesCount, seed, input, genVars>>

CountDone ==
  /\ pc = "countSolutions"
  /\ CountFinished
  /\ pc' = "counted"
  /\ UNCHANGED <<fillVars, appVars, cluesCount, seed, searchVars, input, genVars>>

\* isSafe(grid, row, col, num) called for all 81 positions and 9 candidates
IsSafeCall ==
  /\ pc = "idle"
  /\ safe' = [r \in Idx |-> [c \in Idx |-> [n \in 1 .. 9 |-> isSafe(grid, r, c, n)]]]
  /\ pc' = "isSafe"
  /\ UNCHANGED <<fillVars, appVars, cluesCount, seed, searchVars, input, solution, puzzle, attempts,
                 cellsToRemove, positions, shuffleI, pos, backup, solutions>>

InitSolver ==
  /\ pc = "idle"
  /\ cluesCount = 81
  /\ seed = 0
  /\ input \in Inputs
  /\ grid = input
  /\ stack = <<>>
  /\ count = 0
  /\ ret = "call"
  /\ solution = getEmptyGrid
  /\ puzzle = getEmptyGrid
  /\ attempts = 0
  /\ cellsToRemove = 0
  /\ positions = rowMajor
  /\ shuffleI = 0
  /\ pos = 1
  /\ backup = 0
  /\ solutions = -1
  /\ safe = <<>>
  /\ boardData = <<>>
  /\ status = "IDLE"
  /\ selectedCell = <<>>
  /\ loading = FALSE
  /\ isDraftMode = FALSE
  /\ score = 0
  /\ difficulty = DefaultDifficulty
  /\ answerShown = FALSE
  /\ boxI = 0
  /\ cellK = 0

NextSolver ==
  \/ SolveCall
  \/ SolveRun
  \/ SolveDone
  \/ SolveAgain
  \/ CountCall
  \/ CountRun
  \/ CountDone
  \/ IsSafeCall

SpecSolver == InitSolver /\ [][NextSolver]_vars

----------------------------------------------------------------------------
(* countSolutions called again and again on grids with several completions *)

\* Rectangles of Board0 (rows r1 < r2, columns c1 < c2) whose corners hold
\* two values crosswise: emptying the four corners leaves two ways to fill
\* them, so grids with 1, 2, 4, ... completions arise from them.
DeadlyRects ==
  << <<0, 8, 6, 8>>, <<1, 2, 2, 4>>, <<0, 2, 4, 7>>, <<0, 1, 2, 7>> >>

\* Bound of the model: the emptied cells are corners of the first MaxRects
\* rectangles.
MaxRects == 2

Corners(q) ==
  {q[1] * GRID_SIZE + q[3], q[1] * GRID_SIZE + q[4],
   q[2] * GRID_SIZE + q[3], q[2] * GRID_SIZE + q[4]}

RectCells == UNION {Corners(DeadlyRects[i]) : i \in 1 .. Min({MaxRects, Len(DeadlyRects)})}

Emptied(g, E) ==
  [r \in Idx |-> [c \in Idx |-> IF r * GRID_SIZE + c \in E THEN 0 ELSE g[r][c]]]

\* A given cell outside the rectangles, and the value of its left neighbour:
\* written into the cell, the value stands twice in the row and in the box.
RepeatCell == 4 * GRID_SIZE + 4
RepeatValue == Board0[4][3]

\* cell k of g changed: a corner emptied or put back, the given cell
\* overwritten or put back
Toggle(g, k) ==
  LET r == k \div GRID_SIZE
      c == k % GRID_SIZE
  IN  IF k = RepeatCell
      THEN [g EXCEPT ![r][c] = IF g[r][c] = Board0[r][c] THEN RepeatValue ELSE Board0[r][c]]
      ELSE [g EXCEPT ![r][c] = IF g[r][c] = 0 THEN Board0[r][c] ELSE 0]

\* the argument grids: Board0 with any set of those corners emptied, with
\* and without the repeated given
CountInputs ==
  {Emptied(Board0, E) : E \in SUBSET RectCells}
    \cup {Toggle(Emptied(Board0, E), RepeatCell) : E \in SUBSET RectCells}

\* src 768, 771, 775: the caller receives the returned value; the next call
\* is made on the grid with one cell changed
CountNext ==
  /\ pc = "counted"
  /\ solutions' = count
  /\ \E k \in RectCells \cup {RepeatCell} : input' = Toggle(input, k)
  /\ grid' = input'
  /\ pc' = "idle"
  /\ UNCHANGED <<fillVars, appVars, cluesCount, seed, stack, count, ret, solution, puzzle,
                 attempts, cellsToRemove, positions, shuffleI, pos, backup, safe>>

InitCount ==
  /\ pc = "idle"
  /\ cluesCount = 81
  /\ seed = 0
  /\ input \in CountInputs
  /\ grid = input
  /\ stack = <<>>
  /\ count = 0
  /\ ret = "call"
  /\ solution = getEmptyGrid
  /\ puzzle = getEmptyGrid
  /\ attempts = 0
  /\ cellsToRemove = 0
  /\ positions = rowMajor
  /\ shuffleI = 0
  /\ pos = 1
  /\ backup = 0
  /\ solutions = -1
  /\ safe = <<>>
  /\ boardData = <<>>
  /\ status = "IDLE"
  /\ selectedCell = <<>>
  /\ loading = FALSE
  /\ isDraftMode = FALSE
  /\ score = 0
  /\ difficulty = DefaultDifficulty
  /\ answerShown = FALSE
  /\ boxI = 0
  /\ cellK = 0

NextCount ==
  \/ CountCall
  \/ CountRun
  \/ CountDone
  \/ CountNext

SpecCount == InitCount /\ [][NextCount]_vars

----------------------------------------------------------------------------
(* generateFullBoard up to the call of solveGrid, one draw at a time *)

\* Bound of the model: the last MaxFree cells of each box take every outcome
\* of the draw; the cells before them follow the seed.
MaxFree == 3

\* The outcomes of Math.floor(Math.random() * 9) + 1 (src 718) explored for
\* cell k of box b under seed s: for the last MaxFree cells every value, for
\* the others the seed's number and, after the first cell, the number stored
\* in the cell before, which isSafeBox rejects.
Draws(s, b, k) ==
  IF k >= BOX_SIZE * BOX_SIZE - MaxFree THEN 1 .. 9
  ELSE IF k = 0 THEN {RandDraws(s, b)[k]}
  ELSE {RandDraws(s, b)[k], RandDraws(s, b)[k - 1]}

\* src 717-720: one round of the do-while; a rejected number leaves the cell
\* to the next round, an accepted one is stored
FillDraw ==
  /\ pc = "fill"
  /\ boxI < GRID_SIZE
  /\ cellK < BOX_SIZE * BOX_SIZE
  /\ \E num \in Draws(seed, boxI \div BOX_SIZE, cellK) :
       IF ~isSafeBox(grid, boxI, boxI, num)
       THEN UNCHANGED <<grid, cellK>>
       ELSE /\ grid' = Place(grid, boxI + (cellK \div BOX_SIZE),
                             boxI + (cellK % BOX_SIZE), num)
            /\ cellK' = cellK + 1
  /\ UNCHANGED <<pc, boxI, appVars, cluesCount, seed, stack, count, ret, input, genVars>>

\* src 704-705, 715-722: fillBox returns, the next box starts
FillNextBox ==
  /\ pc = "fill"
  /\ boxI < GRID_SIZE
  /\ cellK = BOX_SIZE * BOX_SIZE
  /\ boxI' = boxI + BOX_SIZE
  /\ cellK' = 0
  /\ UNCHANGED <<pc, appVars, cluesCount, seed, searchVars, input, genVars>>

\* src 704, 709: the loop over the boxes ends; solveGrid(grid) is about to run
FillDone ==
  /\ pc = "fill"
  /\ boxI >= GRID_SIZE
  /\ input' = grid
  /\ pc' = "seeded"
  /\ UNCHANGED <<fillVars, appVars, cluesCount, seed, searchVars, genVars>>

\* src 701: const grid = getEmptyGrid()
InitFill ==
  /\ pc = "fill"
  /\ cluesCount = 81
  /\ seed \in {0, SparseSeed}
  /\ grid = getEmptyGrid
  /\ input = getEmptyGrid
  /\ stack = <<>>
  /\ count = 0
  /\ ret = "call"
  /\ solution = getEmptyGrid
  /\ puzzle = getEmptyGrid
  /\ attempts = 0
  /\ cellsToRemove = 0
  /\ positions = rowMajor
  /\ shuffleI = 0
  /\ pos = 1
  /\ backup = 0
  /\ solutions = -1
  /\ safe = <<>>
  /\ boardData = <<>>
  /\ status = "IDLE"
  /\ selectedCell = <<>>
  /\ loading = FALSE
  /\ isDraftMode = FALSE
  /\ score = 0
  /\ difficulty = DefaultDifficulty
  /\ answerShown = FALSE
  /\ boxI = 0
  /\ cellK = 0

NextFill ==
  \/ FillDraw
  \/ FillNextBox
  \/ FillDone

SpecFill == InitFill /\ [][NextFill]_vars

----------------------------------------------------------------------------
(* The App component, src 7-318: the game around the generated puzzle *)

\* src 377: the largest clue count the difficulty slider offers
MaxClues == 80

\* Bounds of the model: the number keys 1..MaxNum are pressed; the score is
\* counted up to MaxScore.
MaxNum == 2
MaxScore == 2

Keys == 1 .. MaxNum

\* The difficulties the slider is set to: the default and the two largest.
Difficulties == {DefaultDifficulty, MaxClues, MaxClues - 1}

\* The cells emptied in the puzzles of the two largest difficulties: the
\* first cells of the board, as many as the smaller of the two removes.
PlayCells == 0 .. (GRID_SIZE * GRID_SIZE - MaxClues)

\* What generateSudokuPuzzle(DefaultDifficulty) returns under seed 0 (see
\* DefaultPuzzleGenerated): the attempt budget runs out with 59 clues left.
DefaultPuzzle == Emptied(Board0, {k \in Cells : k >= 57 /\ k \notin {58, 63}})

\* src 40: the puzzles generateSudokuPuzzle(d) returns that are explored,
\* all with solution Board0: for the default difficulty the puzzle of seed 0,
\* for the others Board0 with 81 - d of the cells PlayCells emptied (the
\* cells a shuffle puts first; up to three emptied cells always leave the
\* completion unique, so the removals are kept).
GenOutcomes(d) ==
  IF d = DefaultDifficulty THEN {DefaultPuzzle}
  ELSE {Emptied(Board0, E) : E \in {F \in SUBSET PlayCells :
                                      Cardinality(F) = GRID_SIZE * GRID_SIZE - d}}

\* src 43-52
newBoard(p) ==
  [r \in Idx |-> [c \in Idx |->
     [value |-> p[r][c], notes |-> {}, isFixed |-> (p[r][c] # 0), isError |-> FALSE]]]

\* The cells the player clicks: the first empty cells of the puzzle, as many
\* as PlayCells has, and its first given cell.
Clickable(p) ==
  IF p = <<>> THEN {}
  ELSE LET E == {k \in Cells : p[k \div GRID_SIZE][k % GRID_SIZE] = 0}
           G == Cells \ E
           first == {k \in E : Cardinality({x \in E : x < k}) < Cardinality(PlayCells)}
       IN  {<<k \div GRID_SIZE, k % GRID_SIZE>> :
              k \in first \cup {x \in G : \A y \in G : x <= y}}

\* every cell may be edited
Editable_Any(b, row, col) == TRUE

\* src 150, 186: if (boardData[row][col].isFixed) return
Editable(b, row, col) == ~b[row][col].isFixed

\* the comparison with the solution left out: a full board counts as correct
isCorrect_FilledOnly(b, s) ==
  \A r \in Idx : \A c \in Idx : b[r][c].value # 0

\* src 234-254: isCorrect after the double loop
isCorrect(b, s) ==
  \A r \in Idx : \A c \in Idx : b[r][c].value # 0 /\ b[r][c].value = s[r][c]

\* src 235-242: filledCount after the double loop
filledCount(b) ==
  Cardinality({k \in Cells : b[k \div GRID_SIZE][k % GRID_SIZE].value # 0})

\* src 108-115, 125-132: the board with the player's input cleared
clearedBoard(b) ==
  [r \in Idx |-> [c \in Idx |->
     [b[r][c] EXCEPT !.value = IF b[r][c].isFixed THEN b[r][c].value ELSE 0,
                     !.notes = {},
                     !.isError = FALSE]]]

\* what the handlers of the App never touch
logicVars == <<cluesCount, seed, searchVars, input, attempts, cellsToRemove,
               positions, shuffleI, pos, backup, solutions, safe, fillVars>>

\* src 25-37: prepareNewGame up to setTimeout (button disabled while loading,
\* src 385)
prepareNewGame ==
  /\ pc = "app"
  /\ ~loading
  /\ loading' = TRUE
  /\ status' = "IDLE"
  /\ selectedCell' = <<>>
  /\ isDraftMode' = FALSE
  /\ pc' = "timeout"
  /\ UNCHANGED <<boardData, solution, puzzle, score, difficulty, answerShown, logicVars>>

\* src 39-57: the timeout callback
newGameReady ==
  /\ pc = "timeout"
  /\ \E p \in GenOutcomes(difficulty) :
       /\ puzzle' = p
       /\ solution' = Board0
       /\ boardData' = newBoard(p)
  /\ status' = "READY"
  /\ loading' = FALSE
  /\ answerShown' = FALSE
  /\ pc' = "app"
  /\ UNCHANGED <<selectedCell, isDraftMode, score, difficulty, logicVars>>

\* src 379, 381: the difficulty slider
setDifficulty ==
  /\ pc = "app"
  /\ ~(loading \/ status = "PLAYING" \/ status = "PAUSED")
  /\ \E d \in Difficulties \ {difficulty} : difficulty' = d
  /\ UNCHANGED <<pc, boardData, solution, puzzle, status, selectedCell, loading,
                 isDraftMode, score, answerShown, logicVars>>

\* src 83-88 (button shown when READY and not loading, src 469)
handleStartGame ==
  /\ pc = "app"
  /\ status = "READY" /\ ~loading
  /\ status' = "PLAYING"
  /\ UNCHANGED <<pc, boardData, solution, puzzle, selectedCell, loading,
                 isDraftMode, score, difficulty, answerShown, logicVars>>

\* src 90-95
handlePause ==
  /\ pc = "app"
  /\ status = "PLAYING"
  /\ status' = "PAUSED"
  /\ UNCHANGED <<pc, boardData, solution, puzzle, selectedCell, loading,
                 isDraftMode, score, difficulty, answerShown, logicVars>>

\* src 97-102
handleResume ==
  /\ pc = "app"
  /\ status = "PAUSED"
  /\ status' = "PLAYING"
  /\ UNCHANGED <<pc, boardData, solution, puzzle, selectedCell, loading,
                 isDraftMode, score, difficulty, answerShown, logicVars>>

\* src 141-144
handleCellClick(row, col) ==
  /\ pc = "app"
  /\ status = "PLAYING"
  /\ selectedCell' = <<row, col>>
  /\ UNCHANGED <<pc, boardData, solution, puzzle, status, loading,
                 isDraftMode, score, difficulty, answerShown, logicVars>>

\* src 532-533: the draft mode switch
toggleDraftMode ==
  /\ pc = "app"
  /\ status = "PLAYING"
  /\ isDraftMode' = ~isDraftMode
  /\ UNCHANGED <<pc, boardData, solution, puzzle, status, selectedCell, loading,
                 score, difficulty, answerShown, logicVars>>

\* src 146-180; a call that returns early changes nothing
handleNumberInput(num) ==
  /\ pc = "app"
  /\ selectedCell # <<>> /\ status = "PLAYING"               \* 147
  /\ LET row == selectedCell[1]
         col == selectedCell[2]
         cell == boardData[row][col]
     IN  /\ Editable(boardData, row, col)                     \* 150
         /\ IF isDraftMode
            THEN /\ cell.value = 0                            \* 158, 170
                 /\ boardData' = [boardData EXCEPT ![row][col].notes =
                                    IF num \in cell.notes THEN cell.notes \ {num}
                                    ELSE cell.notes \cup {num}]
            ELSE boardData' = [boardData EXCEPT ![row][col] =
                                 [cell EXCEPT !.value = num, !.notes = {},
                                              !.isError = FALSE]]
  /\ UNCHANGED <<pc, solution, puzzle, status, selectedCell, loading,
                 isDraftMode, score, difficulty, answerShown, logicVars>>

\* src 182-199
handleDelete ==
  /\ pc = "app"
  /\ selectedCell # <<>> /\ status = "PLAYING"               \* 183
  /\ LET row == selectedCell[1]
         col == selectedCell[2]
         cell == boardData[row][col]
     IN  /\ Editable(boardData, row, col)                     \* 186
         /\ boardData' = [boardData EXCEPT ![row][col] =
                            IF cell.value # 0
                            THEN [cell EXCEPT !.value = 0, !.isError = FALSE]
                            ELSE [cell EXCEPT !.notes = {}]]
  /\ UNCHANGED <<pc, solution, puzzle, status, selectedCell, loading,
                 isDraftMode, score, difficulty, answerShown, logicVars>>

\* src 104-118
handleClearAll ==
  /\ pc = "app"
  /\ status = "PLAYING"
  /\ boardData' = clearedBoard(boardData)
  /\ UNCHANGED <<pc, solution, puzzle, status, selectedCell, loading,
                 isDraftMode, score, difficulty, answerShown, logicVars>>

\* src 120-139 (button disabled while loading, IDLE or READY, src 525)
handleRestart ==
  /\ pc = "app"
  /\ ~(loading \/ status = "IDLE" \/ status = "READY")
  /\ boardData # <<>>                                         \* 121
  /\ status # "READY"                                         \* 122
  /\ boardData' = clearedBoard(boardData)
  /\ status' = "PLAYING"
  /\ UNCHANGED <<pc, solution, puzzle, selectedCell, loading,
                 isDraftMode, score, difficulty, answerShown, logicVars>>

\* src 229-294 (button disabled unless PLAYING, src 549)
handleSubmit ==
  /\ pc = "app"
  /\ status = "PLAYING"
  /\ score < MaxScore
  /\ boardData' = [r \in Idx |-> [c \in Idx |->
                     IF boardData[r][c].value # 0
                     THEN [boardData[r][c] EXCEPT
                             !.isError = (boardData[r][c].value # solution[r][c])]
                     ELSE boardData[r][c]]]
  /\ IF isCorrect(boardData, solution) /\ filledCount(boardData) = GRID_SIZE * GRID_SIZE
     THEN status' = "WON" /\ score' = score + 1
     ELSE status' = "FAILED" /\ score' = score
  /\ UNCHANGED <<pc, solution, puzzle, selectedCell, loading,
                 isDraftMode, difficulty, answerShown, logicVars>>

\* src 296-318, the confirm dialog accepted (button disabled while loading
\* or IDLE, src 557)
handleShowAnswer ==
  /\ pc = "app"
  /\ ~(loading \/ status = "IDLE")
  /\ status # "READY"                                         \* 297
  /\ boardData' = [r \in Idx |-> [c \in Idx |->
                     [value |-> solution[r][c], notes |-> {},
                      isFixed |-> TRUE, isError |-> FALSE]]]
  /\ status' = IF status \in {"PLAYING", "PAUSED"} THEN "FAILED" ELSE status
  /\ answerShown' = TRUE
  /\ UNCHANGED <<pc, solution, puzzle, selectedCell, loading,
                 isDraftMode, score, difficulty, logicVars>>

\* src 7-20, 61-64: the state after mounting; the effect has called
\* prepareNewGame and the timeout is pending
InitGame ==
  /\ pc = "timeout"
  /\ cluesCount = DefaultDifficulty
  /\ seed = 0
  /\ grid = getEmptyGrid
  /\ input = getEmptyGrid
  /\ stack = <<>>
  /\ count = 0
  /\ ret = "call"
  /\ solution = <<>>
  /\ puzzle = <<>>
  /\ attempts = 0
  /\ cellsToRemove = 0
  /\ positions = rowMajor
  /\ shuffleI = 0
  /\ pos = 1
  /\ backup = 0
  /\ solutions = -1
  /\ safe = <<>>
  /\ boardData = <<>>
  /\ status = "IDLE"
  /\ selectedCell = <<>>
  /\ loading = TRUE
  /\ isDraftMode = FALSE
  /\ score = 0
  /\ difficulty = DefaultDifficulty
  /\ answerShown = FALSE
  /\ boxI = 0
  /\ cellK = 0

NextGame ==
  \/ prepareNewGame
  \/ newGameReady
  \/ setDifficulty
  \/ handleStartGame
  \/ handlePause
  \/ handleResume
  \/ \E rc \in Clickable(puzzle) : handleCellClick(rc[1], rc[2])
  \/ toggleDraftMode
  \/ \E num \in Keys : handleNumberInput(num)
  \/ handleDelete
  \/ handleClearAll
  \/ handleRestart
  \/ handleSubmit
  \/ handleShowAnswer

SpecGame == InitGame /\ [][NextGame]_vars

----------------------------------------------------------------------------
(* Definitions the properties are stated with *)

NoEmpty(g) == \A r \in Idx : \A c \in Idx : g[r][c] # 0

RowVals(g, r) == {g[r][c] : c \in Idx}
ColVals(g, c) == {g[r][c] : r \in Idx}
BoxVals(g, br, bc) == {g[BOX_SIZE * br + i][BOX_SIZE * bc + j] : i \in Box, j \in Box}

\* complete and valid: every row, column and box holds each of 1..9
IsComplete(g) ==
  /\ \A r \in Idx : RowVals(g, r) = 1 .. 9
  /\ \A c \in Idx : ColVals(g, c) = 1 .. 9
  /\ \A br \in Box : \A bc \in Box : BoxVals(g, br, bc) = 1 .. 9

SameUnit(r1, c1, r2, c2) ==
  \/ r1 = r2
  \/ c1 = c2
  \/ (r1 \div BOX_SIZE = r2 \div BOX_SIZE /\ c1 \div BOX_SIZE = c2 \div BOX_SIZE)

\* some value stands twice in a row, a column or a box
HasDuplicate(g) ==
  \E k1 \in Cells : \E k2 \in Cells :
    LET r1 == k1 \div GRID_SIZE
        c1 == k1 % GRID_SIZE
        r2 == k2 \div GRID_SIZE
        c2 == k2 % GRID_SIZE
    IN  /\ k1 < k2
        /\ g[r1][c1] # 0
        /\ g[r1][c1] = g[r2][c2]
        /\ SameUnit(r1, c1, r2, c2)

EmptyCells(g) == {k \in Cells : g[k \div GRID_SIZE][k % GRID_SIZE] = 0}

Fill(g, f) ==
  [r \in Idx |-> [c \in Idx |->
     IF g[r][c] = 0 THEN f[r * GRID_SIZE + c] ELSE g[r][c]]]

\* the number of completions of g: the complete valid grids that agree with g
\* on its given cells
NumCompletions(g) ==
  Cardinality({f \in [EmptyCells(g) -> 1 .. 9] : IsComplete(Fill(g, f))})

\* the candidates of an empty cell: the values not yet in its row, column or box
Candidates(g, r, c) ==
  (1 .. 9) \ (RowVals(g, r) \cup ColVals(g, c)
                 \cup BoxVals(g, r \div BOX_SIZE, c \div BOX_SIZE))

\* the set of completions of g, built cell by cell from the last empty cell
RECURSIVE Completions(_)
Completions(g) ==
  LET E == EmptyCells(g)
  IN  IF E = {}
      THEN IF IsComplete(g) THEN {g} ELSE {}
      ELSE LET k == CHOOSE x \in E : \A y \in E : x >= y
               r == k \div GRID_SIZE
               c == k % GRID_SIZE
           IN  UNION {Completions([g EXCEPT ![r][c] = v]) : v \in Candidates(g, r, c)}

DefaultPuzzleGenerated ==
  (seed = 0 /\ cluesCount = DefaultDifficulty /\ pc = "done") => puzzle = DefaultPuzzle

Board0Generated ==
  (seed = 0 /\ pc \notin {"start", "solve"}) => solution = Board0


----------------------------------------------------------------------------
(* Properties of generateSudokuPuzzle, checked under Spec *)

LoopStates == {"loop", "count", "done", "recount", "end"}

\* every non-zero cell of p equals the cell of q at the same place
Within(p, q) == \A r \in Idx : \A c \in Idx : p[r][c] # 0 => p[r][c] = q[r][c]

\* C1: the puzzle generateSudokuPuzzle returns has exactly one completion:
\* countSolutions run on it returns 1, also when the loop stopped because the
\* attempts ran out; and the puzzle that stands after a kept removal is the
\* grid countSolutions has just counted with result 1.
C1_ReturnedPuzzleUnique ==
  /\ pc = "end" => (count = 1 /\ input = puzzle)
  /\ (pc = "loop" /\ pos > 1 /\ input = puzzle) => count = 1

\* C1 witness: a puzzle returned on the degraded path has been recounted
C1_DegradedRecounted ==
  pc = "end" /\ attempts <= 0 /\ cellsToRemove > 0 /\ count = 1

\* C2: solveGrid succeeds on the seeded grid and the solution grid is complete
\* and valid: every row, column and box holds each of 1..9.
C2_SolutionComplete ==
  /\ (pc = "solve" /\ SolveFinished) => (ret = "true" /\ IsComplete(grid))
  /\ pc \in ({"shuffle"} \cup LoopStates) => IsComplete(solution)

\* C2 witness: solveGrid has returned on a seeded grid it had to fill
C2_SeededGridSolved ==
  pc = "solve" /\ SolveFinished /\ ~NoEmpty(input) /\ NoEmpty(grid)

\* C3: in the removal loop and at return every non-zero cell of puzzle equals
\* the cell of solution, and no step of the loop changes solution.
C3_PuzzleWithinSolution ==
  /\ [](pc \in ({"shuffle"} \cup LoopStates) => Within(puzzle, solution))
  /\ [][(pc \in ({"shuffle"} \cup LoopStates)) => (solution' = solution)]_vars

\* C3 witness: a rejected removal has been put back, after kept removals
C3_RemovalPutBack ==
  /\ pc = "loop"
  /\ pos > 1
  /\ count # 1
  /\ puzzle[positions[pos - 1][1]][positions[pos - 1][2]] # 0
  /\ Clues(puzzle) < GRID_SIZE * GRID_SIZE

\* C4 as claimed: the returned puzzle has at least cluesCount clues, and exactly
\* cluesCount unless the attempts reached 0; the loop never ends with cells
\* still to remove while attempts remain.
C4_ClueCount ==
  pc = "done" =>
    /\ Clues(puzzle) >= cluesCount
    /\ (Clues(puzzle) = cluesCount \/ attempts <= 0)
    /\ (cellsToRemove > 0 => attempts <= 0)

\* C4 as amended: the returned puzzle has at least cluesCount clues, and exactly
\* cluesCount unless the attempts reached 0 or every one of the 81 positions
\* has been tried; the loop ends with cells still to remove while attempts
\* remain only when every position has been tried.
C4_ClueCountOrAllTried ==
  pc = "done" =>
    /\ Clues(puzzle) >= cluesCount
    /\ Clues(puzzle) = cluesCount + cellsToRemove
    /\ (Clues(puzzle) = cluesCount \/ attempts <= 0 \/ pos > Len(positions))
    /\ (cellsToRemove > 0 /\ attempts > 0) => pos > Len(positions)

\* C4 witness: the loop has tried all 81 positions and ended with cells still
\* to remove and attempts left
C4_AllTriedBudgetLeft ==
  /\ pc = "done"
  /\ pos > Len(positions)
  /\ cellsToRemove > 0
  /\ attempts > 0
  /\ Clues(puzzle) > cluesCount

\* C5: with cluesCount = 81 no cell is tested for removal, cellsToRemove is 0
\* and the returned puzzle is the solution grid, with 81 clues.
C5_FullTarget ==
  cluesCount = 81 =>
    /\ pc # "count"
    /\ pc \in ({"shuffle"} \cup LoopStates) =>
         (cellsToRemove = 0 /\ puzzle = solution /\ pos = 1)
    /\ pc = "done" => Clues(puzzle) = 81

\* C5 witness: generateSudokuPuzzle(81) has returned
C5_FullTargetReturned == cluesCount = 81 /\ pc = "done"

----------------------------------------------------------------------------
(* Properties of the primitives and the searches, checked under SpecSolver *)

\* C6 as claimed: countSolutions returns 1 on a complete valid grid, and 0 on
\* a grid with a value twice in a row, a column or a box.
C6_CountCompleteAndDuplicate ==
  pc = "counted" =>
    /\ IsComplete(input) => count = 1
    /\ HasDuplicate(input) => count = 0

\* C7: on a grid whose given cells hold no duplicate, countSolutions returns 0
\* iff the grid has no completion, 1 iff it has exactly one, and a value >= 2
\* iff it has two or more.
C7_UniquenessOracle ==
  (pc = "counted" /\ ~HasDuplicate(input)) =>
    LET n == NumCompletions(input)
    IN  /\ count = 0 <=> n = 0
        /\ count = 1 <=> n = 1
        /\ count >= 2 <=> n >= 2

\* C7 witness: a duplicate-free grid with swappable values has been counted
C7_AmbiguousCounted ==
  pc = "counted" /\ ~HasDuplicate(input) /\ ~NoEmpty(input) /\ count >= 2

\* C8: isSafe(grid, row, col, num) is false iff num stands in the row, in the
\* column or in the box of (row, col), for every row, column and value; the
\* calls leave the grid as it was.
C8_IsSafe ==
  pc = "isSafe" =>
    /\ grid = input
    /\ \A r \in Idx : \A c \in Idx : \A n \in 1 .. 9 :
         safe[r][c][n] =
           (n \notin (RowVals(input, r) \cup ColVals(input, c)
                        \cup BoxVals(input, r \div BOX_SIZE, c \div BOX_SIZE)))

\* C8 witness: isSafe has answered both ways on a duplicate-free partial grid
C8_IsSafeAnswered ==
  /\ pc = "isSafe"
  /\ ~HasDuplicate(input)
  /\ ~NoEmpty(input)
  /\ \E r \in Idx : \E c \in Idx : \E n \in 1 .. 9 : safe[r][c][n]
  /\ \E r \in Idx : \E c \in Idx : \E n \in 1 .. 9 : ~safe[r][c][n]

\* C9: solveGrid returns true with no cell empty and every given cell as it
\* was, or false with the grid equal to the grid passed in.
C9_SolveResult ==
  pc \in {"solved", "solved2"} =>
    IF ret = "true"
    THEN NoEmpty(grid) /\ Within(input, grid)
    ELSE grid = input

\* C9 witness: solveGrid has returned false after placing a candidate
C9_FailedAfterPlacing ==
  /\ pc = "solved"
  /\ ret = "false"
  /\ FirstEmpty(input) # -1
  /\ NextSafe(input, FirstEmpty(input) \div GRID_SIZE,
              FirstEmpty(input) % GRID_SIZE, 1) <= 9

\* C10: solveGrid on a grid with no empty cell returns true, places nothing
\* and leaves the grid unchanged; a second solveGrid leaves the grid as the
\* first call left it.
C10_SolveIdempotent ==
  /\ (pc \in {"solveGrid", "solved", "solveGrid2", "solved2"} /\ NoEmpty(input)) =>
       (grid = input /\ stack = <<>> /\ ret \in {"call", "true"})
  /\ pc = "solved2" => grid = input

\* C10 witness: a grid solveGrid had filled has been solved a second time
C10_SolvedTwice ==
  pc = "solved2" /\ ret = "true" /\ NoEmpty(input) /\ IsComplete(grid)


----------------------------------------------------------------------------
(* The attempt budget of generateSudokuPuzzle, checked under Spec *)

\* C12: attempts starts at 5 when cluesCount > 25 and at 20 otherwise; a
\* rejected removal (count # 1) puts the remembered value back and takes one
\* attempt, a kept removal takes none; attempts never falls below 0, and once
\* it is 0 no further cell is tested.
C12_AttemptBudget ==
  /\ [](pc \in ({"shuffle"} \cup LoopStates) =>
          /\ attempts >= 0
          /\ attempts <= (IF cluesCount > 25 THEN 5 ELSE 20)
          /\ attempts <= 0 => pc \in {"done", "recount", "end"})
  /\ [][(pc = "solve" /\ pc' = "shuffle") =>
          (attempts' = (IF cluesCount > 25 THEN 5 ELSE 20))]_vars
  /\ [][(pc = "count" /\ pc' # "count") =>
          LET r == positions[pos][1]
              c == positions[pos][2]
          IN  IF count # 1
              THEN /\ attempts' = attempts - 1
                   /\ puzzle'[r][c] = solution[r][c]
                   /\ puzzle'[r][c] # 0
                   /\ cellsToRemove' = cellsToRemove
              ELSE /\ attempts' = attempts
                   /\ puzzle' = puzzle
                   /\ puzzle[r][c] = 0]_vars

\* C12 witness: the twentieth rejection has ended the loop of a call with
\* cluesCount <= 25
C12_TwentyRejections ==
  pc = "done" /\ cluesCount <= 25 /\ attempts = 0 /\ cellsToRemove > 0


----------------------------------------------------------------------------
(* Properties of countSolutions called repeatedly, checked under SpecCount *)

C14_FreshAccumulator ==
  /\ [](pc = "countSolutions" /\ stack = <<>> /\ ret = "call" => count = 0)
  /\ [](pc = "counted" /\ solutions # -1 /\ ~HasDuplicate(input) =>
           /\ grid = input
           /\ count = 0 <=> Completions(input) = {}
           /\ count = 1 <=> Cardinality(Completions(input)) = 1)
  /\ [][(pc = "idle" /\ pc' = "countSolutions") => (count' = 0 /\ grid' = grid)]_vars

\* C14 witness: a call has returned 1 right after a call that returned 2
C14_OneAfterTwo ==
  /\ pc = "counted"
  /\ ~HasDuplicate(input)
  /\ solutions = 2
  /\ count = 1


----------------------------------------------------------------------------
(* Properties of the seeding of generateFullBoard, checked under SpecFill *)

DiagonalCell(r, c) == r \div BOX_SIZE = c \div BOX_SIZE

\* C15: when the seeding loop has ended and solveGrid has not run yet, each
\* of the three diagonal boxes holds each of 1..9 (in its nine cells, so once
\* each), every cell outside them is 0, and no value stands twice in a row
\* or a column, whatever numbers were drawn; while the loop runs the same
\* holds with the boxes filled so far.
C15_SeededGrid ==
  pc \in {"fill", "seeded"} =>
    /\ \A b \in Box : BOX_SIZE * b < boxI => BoxVals(grid, b, b) = 1 .. 9
    /\ pc = "seeded" => boxI = GRID_SIZE
    /\ \A r \in Idx : \A c \in Idx : ~DiagonalCell(r, c) => grid[r][c] = 0
    /\ \A r \in Idx : \A c1 \in Idx : \A c2 \in Idx :
         (c1 # c2 /\ grid[r][c1] # 0) => grid[r][c1] # grid[r][c2]
    /\ \A c \in Idx : \A r1 \in Idx : \A r2 \in Idx :
         (r1 # r2 /\ grid[r1][c] # 0) => grid[r1][c] # grid[r2][c]

\* C15 witness: a seeding has ended whose last cells differ from the seed's
\* numbers in every box
C15_OtherOutcome ==
  /\ pc = "seeded"
  /\ \A b \in Box : grid[BOX_SIZE * b + 2][BOX_SIZE * b + 2] # RandDraws(seed, b)[8]


----------------------------------------------------------------------------
(* Properties of the App, checked under SpecGame *)

\* the board b agrees with the grid s in all 81 cells and has no empty cell
AllCorrect(b, s) ==
  \A k \in Cells :
    LET r == k \div GRID_SIZE
        c == k % GRID_SIZE
    IN  b[r][c].value # 0 /\ b[r][c].value = s[r][c]

\* a step of one of the four editing handlers
EditStep ==
  \/ \E num \in Keys : handleNumberInput(num)
  \/ handleDelete
  \/ handleClearAll
  \/ handleRestart

\* C11: a handleSubmit step sets the status to WON and adds one to the score
\* iff all 81 cells are non-zero and equal to the stored solution, and sets
\* FAILED with the score unchanged otherwise; afterwards a cell is marked as
\* an error iff it holds a non-zero value different from the solution; the
\* step changes no value, leaves the stored solution as it is and runs no
\* search.
C11_SubmitCompares ==
  [][handleSubmit =>
       /\ status' = (IF AllCorrect(boardData, solution) THEN "WON" ELSE "FAILED")
       /\ score' = (IF AllCorrect(boardData, solution) THEN score + 1 ELSE score)
       /\ \A r \in Idx : \A c \in Idx :
            /\ boardData'[r][c].isError =
                 (boardData[r][c].value # 0 /\ boardData[r][c].value # solution[r][c])
            /\ boardData'[r][c].value = boardData[r][c].value
            /\ boardData'[r][c].isFixed = boardData[r][c].isFixed
       /\ solution' = solution
       /\ solution = Board0
       /\ UNCHANGED <<grid, stack, count, ret, solutions>>]_vars

\* C11 witness: a board filled in by the player has been submitted and won
C11_WonByPlaying ==
  /\ status = "WON"
  /\ ~answerShown
  /\ score > 0
  /\ \E r \in Idx : \E c \in Idx : ~boardData[r][c].isFixed

\* C16 as claimed: once handleShowAnswer has revealed the solution, no step
\* reaches WON or raises the score before a new puzzle is generated.
C16_AnswerForfeits ==
  [][answerShown =>
       /\ score' = score
       /\ status' = "WON" => status = "WON"]_vars

\* C17: the board is created with a cell fixed iff the generated puzzle is
\* non-zero there; a step of handleNumberInput, handleDelete, handleClearAll
\* or handleRestart leaves the value of every fixed cell as it is; such a
\* step changes a value only when the status is PLAYING, or when it is a
\* restart, which sets the non-fixed cells to 0.
C17_FixedCells ==
  /\ [][newGameReady =>
          \A r \in Idx : \A c \in Idx :
            /\ boardData'[r][c].isFixed = (puzzle'[r][c] # 0)
            /\ boardData'[r][c].value = puzzle'[r][c]]_vars
  /\ [][EditStep =>
          \A r \in Idx : \A c \in Idx :
            /\ boardData[r][c].isFixed =>
                 /\ boardData'[r][c].value = boardData[r][c].value
                 /\ boardData'[r][c].isFixed
            /\ boardData'[r][c].value # boardData[r][c].value =>
                 \/ status = "PLAYING"
                 \/ handleRestart /\ boardData'[r][c].value = 0]_vars

\* C17 witness: while the player's input stands in a cell, a given cell is
\* selected and the number keys and delete act on it
C17_FixedSelected ==
  /\ status = "PLAYING"
  /\ ~answerShown
  /\ selectedCell # <<>>
  /\ boardData[selectedCell[1]][selectedCell[2]].isFixed
  /\ \E r \in Idx : \E c \in Idx : ~boardData[r][c].isFixed /\ boardData[r][c].value # 0

============================================================================
